---- MODULE Spec2Model ----
(***************************************************************************)
(* Model of the data-access layer of the PyBiorythm dashboard              *)
(* (src/dashboard/services.py): CachedAPIClient, a read-through cache in   *)
(* front of PyBiorythmAPIClient, with keyed invalidation.                  *)
(*                                                                         *)
(* Every public method of CachedAPIClient is a request that runs in a      *)
(* request slot.  A request advances one externally visible step at a      *)
(* time (cache get, upstream request, cache set / delete_many, return), so *)
(* that requests running in different slots interleave step by step.       *)
(*                                                                         *)
(* Spec and ConcSpec are the specifications of the cache.  ClientSpec is   *)
(* the specification of one PyBiorythmAPIClient instance: its credential   *)
(* state and the requests it sends.  ChartSpec is the specification of the *)
(* chart builders of src/dashboard/plotly_utils.py, applied to a sparse    *)
(* series of points.  ViewSpec is the specification of the views of        *)
(* src/dashboard/views.py, as functions of the results of their calls to   *)
(* the data-access layer.                                                  *)
(***************************************************************************)
EXTENDS Integers, Sequences, FiniteSets, TLC

VARIABLES
    cache,  \* the shared cache store: key -> [value, ttl, stored_at]
    gen,    \* remote API state: per person, the number of calculations written
    req,    \* per request slot, the running call and its local variables
    client, \* the PyBiorythmAPIClient instance: token and session headers
    sent,   \* the last request the client sent, and what it returned
    chart,  \* the chart builder called last: its input series and its result
    view    \* the view served last: the results of its calls and its response

vars == <<cache, gen, req, client, sent, chart, view>>

\* the state of the cache and of the client
cachevars == <<cache, gen, req>>
clientvars == <<client, sent>>
viewvars == <<chart, view>>

----------------------------------------------------------------------------
(* Bounds of the model *)

\* number of calculations the remote API accepts for one person
MaxGen == 1

\* number of points of the longest sparse series given to a chart builder
MaxLen == 3

\* person ids the requests are about
Persons == {1, 2}

\* request slots; Spec runs one request at a time in SerialProcs,
\* ConcSpec runs the slots of Procs concurrently
Procs == {"a", "b"}
SerialProcs == {"a"}
Readers == {"a"}
Writers == {"b"}

\* persons a new calculation is triggered for
CalcPersons == {1}

\* persons the concurrent requests of ConcSpec are about
ConcPersons == {1}

----------------------------------------------------------------------------
(* Program constants *)

\* self.cache_timeout = 300
cache_timeout == 300

----------------------------------------------------------------------------
(* Time *)

\* seconds that may elapse in one step of the clock: the people-list and
\* person entries live for one such step, the statistics entries for two
Elapse == {cache_timeout}

----------------------------------------------------------------------------
(* Values exchanged with the remote API *)

\* Python None: the Absent result of _make_request
None == [kind |-> "None"]

\* a parsed body that is falsy in Python without being None ({} or [])
Empty == [kind |-> "Empty"]

\* Python truthiness of a result (`if data:`)
Truthy(v) == v.kind \notin {"None", "Empty"}

NoArgs ==
    [start_date |-> "None", end_date |-> "None", limit |-> 0, search |-> ""]

\* arguments of get_biorhythm_data_fresh: optional dates, optional limit
FreshArgs ==
    { NoArgs,
      [start_date |-> "2024-01-01", end_date |-> "2024-01-05", limit |-> 5000,
       search |-> ""] }

\* the search terms of people_list_partial: request.GET.get('search', '')
Searches == {"", "ann"}

\* what the remote API answers with, when the request succeeds and the body
\* is a non-empty document: the resource as of the current generation
PeopleData(search) ==
    [kind |-> "people", id |-> 0, gen |-> gen, search |-> search]
PersonData(p) == [kind |-> "person", id |-> p, gen |-> gen[p]]
StatsData(p)  == [kind |-> "stats", id |-> p, gen |-> gen[p]]
SeriesData(p, a) == [kind |-> "series", id |-> p, gen |-> gen[p], args |-> a]
CalcResult(p, g) == [kind |-> "calculation", id |-> p, gen |-> g]

\* a response body that response.json() cannot parse
Unparseable == [kind |-> "Unparseable"]

\* the status codes of the responses: success, a redirection that is not
\* followed, a client error, a server error
Statuses == {200, 304, 404, 500}

\* what self.session.request(method, url) ends with: an exception of the
\* transport, or a response with a status and a body
Exchanges(body) ==
    {[error |-> e, status |-> 0, body |-> None] :
        e \in {"ConnectionError", "Timeout"}}
    \cup {[error |-> "none", status |-> st, body |-> b] :
        st \in Statuses, b \in {Unparseable, Empty, body}}

\* the exception that leaves the try block of _make_request, "none" if none:
\* session.request raises the transport's exception, raise_for_status
\* raises HTTPError for a 4xx or 5xx status, response.json() raises
\* JSONDecodeError
Raises(x) ==
    IF x.error # "none" THEN x.error
    ELSE IF x.status >= 400 /\ x.status < 600 THEN "HTTPError"
    ELSE IF x.body = Unparseable THEN "JSONDecodeError"
    ELSE "none"

\* the exception classes derived from requests.exceptions.RequestException
RequestException ==
    {"ConnectionError", "Timeout", "HTTPError", "JSONDecodeError"}

\* an exception that leaves a function
Raised(e) == [kind |-> "raised", exc |-> e]

\* what _make_request ends with after the exchange x
Returned(x) ==
    IF Raises(x) = "none" THEN x.body
    ELSE IF Raises(x) \in RequestException THEN None
    ELSE Raised(Raises(x))

\* _make_request: the parsed body, or None on any RequestException
_make_request(body) == {Returned(x) : x \in Exchanges(body)}

get_people(search) == _make_request(PeopleData(search))
get_person(p) == _make_request(PersonData(p))
get_person_statistics(p) == _make_request(StatsData(p))
get_person_biorhythm_data(p, a) == _make_request(SeriesData(p, a))

----------------------------------------------------------------------------
(* Cache keys *)

KeyPeople == "api_people_list"
KeyPerson(p) == "api_person_" \o ToString(p)
KeyStats(p) == "api_person_stats_" \o ToString(p)

\* variants that leave a key out of the list
InvalidateKeysNoStats(p) == {KeyPerson(p), KeyPeople}
InvalidateKeysNoPeople(p) == {KeyPerson(p), KeyStats(p)}

\* the key list built by invalidate_person_cache
InvalidateKeys(p) == {KeyPerson(p), KeyStats(p), KeyPeople}

----------------------------------------------------------------------------
(* The cache store (django.core.cache): entries expire lazily, an expired  *)
(* entry stays in the store until it is overwritten or deleted but is      *)
(* never returned by get.  stored_at is the generation of the remote data  *)
(* at the moment of the set: the logical time the entry was stored at; age  *)
(* is the number of seconds the entry has been in the store since the set,  *)
(* counted while the entry is live and up to the longest timeout in use.    *)

Live(c, k) == k \in DOMAIN c /\ c[k].ttl > 0

\* variant: a get that also returns expired entries
CacheGetIgnoreExpiry(c, k) == IF k \in DOMAIN c THEN c[k].value ELSE None

\* cache.get(key): the value of a live entry, else None
CacheGet(c, k) == IF Live(c, k) THEN c[k].value ELSE None

\* cache.set(key, value, timeout)
CacheSet(c, k, v, timeout, stamp) ==
    [x \in DOMAIN c \cup {k} |->
        IF x = k
        THEN [value |-> v, ttl |-> timeout, stored_at |-> stamp, age |-> 0]
        ELSE c[x]]

\* variant: the whole store is flushed
CacheDeleteManyFlush(c, ks) == [x \in {} |-> None]

\* cache.delete_many(keys)
CacheDeleteMany(c, ks) == [x \in DOMAIN c \ ks |-> c[x]]

\* what the store holds under a key: "absent", "expired" or "live"
Holds(c, k) ==
    IF k \notin DOMAIN c THEN "absent"
    ELSE IF c[k].ttl > 0 THEN "live" ELSE "expired"

\* the age of an entry after d more seconds in the store
Aged(e, d) ==
    LET lived == IF e.ttl > d THEN d ELSE e.ttl IN
      IF e.age + lived > cache_timeout * 2 THEN cache_timeout * 2
      ELSE e.age + lived

\* d seconds pass
CacheElapse(c, d) ==
    [x \in DOMAIN c |->
        [c[x] EXCEPT !.ttl = IF c[x].ttl > d THEN c[x].ttl - d ELSE 0,
                     !.age = Aged(c[x], d)]]

----------------------------------------------------------------------------
(* Requests *)
(*                                                                         *)
(* op, person, args: the method called and its arguments; pc: the next     *)
(* step; cached_data, data: the method's local variables; ret: the value   *)
(* returned.  History kept for the properties: calls counts the upstream   *)
(* requests the call made; seen is what the store held under the key when  *)
(* the call looked it up (for calculate_biorhythm_and_invalidate: what it  *)
(* held under the person's statistics key when the call was made); after   *)
(* describes the invalidating call this read directly follows.             *)

ReadOps ==
    {"get_people_cached", "get_person_cached", "get_person_statistics_cached"}

PersonReadOps == {"get_person_cached", "get_person_statistics_cached"}

InvalidatingOps ==
    {"invalidate_person_cache", "calculate_biorhythm_and_invalidate"}

\* the key and the timeout a cached read uses
KeyOf(o, p) ==
    IF o = "get_people_cached" THEN KeyPeople
    ELSE IF o = "get_person_cached" THEN KeyPerson(p)
    ELSE KeyStats(p)

TimeoutOf(o) ==
    IF o = "get_person_statistics_cached" THEN cache_timeout * 2
    ELSE cache_timeout

NoAfter ==
    [op |-> "none", person |-> 0, outcome |-> "none", had_stats |-> FALSE]

IdleReq ==
    [op |-> "none", person |-> 0, args |-> NoArgs, pc |-> "idle",
     seen |-> "none", cached_data |-> None, data |-> None, ret |-> None,
     calls |-> 0, after |-> NoAfter]

Finished(r) == r.pc \in {"idle", "done", "raised"}

\* how a finished invalidating call ended
Outcome(r) ==
    IF r.pc = "raised" THEN "raised"
    ELSE IF r.op = "invalidate_person_cache" THEN "returned"
    ELSE IF Truthy(r.ret) THEN "result"
    ELSE "absent"

\* the invalidating call for person p that a read of one of p's keys,
\* called right after the finished request r, directly follows
Follows(r, o, p) ==
    IF /\ o \in PersonReadOps
       /\ r.op \in InvalidatingOps
       /\ r.pc \in {"done", "raised"}
       /\ r.person = p
    THEN [op |-> r.op, person |-> p, outcome |-> Outcome(r),
          had_stats |-> (r.seen = "live")]
    ELSE NoAfter

NewReq(o, p, a, start, held, follows) ==
    [op |-> o, person |-> p, args |-> a, pc |-> start,
     seen |-> held, cached_data |-> None, data |-> None, ret |-> None,
     calls |-> 0, after |-> follows]

\* the state of the cache when the process starts
CacheInit ==
    /\ cache = [k \in {} |-> None]
    /\ gen = [p \in Persons |-> 0]
    /\ req = [pr \in Procs |-> IdleReq]

----------------------------------------------------------------------------
(* plotly_utils: the chart builders.  A sparse series is the list of      *)
(* points the remote API returned, in the order it returned them.  A point *)
(* is a dict: its date ('YYYY-MM-DD'), the person's days_alive on that     *)
(* date, the three cycle values and the three critical-day flags.  A       *)
(* Timestamp is the number of a day in Calendar.                           *)

\* the days the dates of the model lie in, in calendar order
Calendar ==
    <<"2023-12-31", "2024-01-01", "2024-01-02", "2024-01-03", "2024-01-04",
      "2024-01-05">>

\* the dates and the days_alive of the points of a sparse series
Dates == {"2023-12-31", "2024-01-01", "2024-01-02", "2024-01-05"}
DaysAlive == {10000, 10001, 10004}

\* the three cycles and the key of a cycle's critical-day flag
Cycles == {"physical", "emotional", "intellectual"}
Flag(cycle) == "is_" \o cycle \o "_critical"

\* a point with every key: amplitude gives the three cycle values, critical
\* the cycles whose flag is set
Point(date, days_alive, amplitude, critical) ==
    [date |-> date, days_alive |-> days_alive,
     physical |-> amplitude[1], emotional |-> amplitude[2],
     intellectual |-> amplitude[3],
     is_physical_critical |-> "physical" \in critical,
     is_emotional_critical |-> "emotional" \in critical,
     is_intellectual_critical |-> "intellectual" \in critical]

\* a point off a zero crossing: no flag set
Sample(date, days_alive) == Point(date, days_alive, <<0, 0, 0>>, {})

Points == {Sample(d, a) : d \in Dates, a \in DaysAlive}

SparseSeries == UNION {[1..n -> Points] : n \in 0..MaxLen}

\* series whose points carry critical-day flags, with days between them;
\* 10005 is a multiple of 23, a zero of the physical cycle
FlaggedPoints ==
    {Point(d[1], d[2], <<0, 0, 0>>, c) :
       d \in {<<"2024-01-01", 10005>>, <<"2024-01-05", 10009>>},
       c \in {{}, {"physical"}, {"emotional", "intellectual"}}}
FlaggedSeries == UNION {[1..n -> FlaggedPoints] : n \in 1..MaxLen}

\* series whose points carry cycle values, -1.0 or 1.0 each
CyclePoints ==
    {Point("2024-01-01", 10000, amplitude, {}) :
       amplitude \in [1..3 -> {-1, 1}]}
CycleSeries == UNION {[1..n -> CyclePoints] : n \in 1..MaxLen}

\* a point that lacks a key, a series with such points
Without(point, key) == [k \in DOMAIN point \ {key} |-> point[k]]
MalformedPoints ==
    {Without(point, key) :
       point \in {Point("2024-01-01", 10000, <<0, 0, 0>>, {"physical"}),
                  Point("2024-01-05", 10004, <<0, 0, 0>>, {})},
       key \in {"date", "days_alive", "is_physical_critical"}}
MalformedSeries ==
    LET points == MalformedPoints \cup {Sample("2024-01-02", 10001)}
    IN  {series \in UNION {[1..n -> points] : n \in 1..MaxLen} :
           \E i \in DOMAIN series : series[i] \in MalformedPoints}

\* dict.get(key, default)
DictGet(d, key, default) == IF key \in DOMAIN d THEN d[key] ELSE default

\* key in point; a column of the DataFrame exists if some row has the key
Has(point, key) == key \in DOMAIN point
HasColumn(biorhythm_data, key) ==
    \E i \in DOMAIN biorhythm_data : Has(biorhythm_data[i], key)

\* pd.to_datetime(date): the Timestamp of a date string
to_datetime(date) == CHOOSE t \in DOMAIN Calendar : Calendar[t] = date

\* the Timestamp of a missing date
NaT == 0

\* df['date'] = pd.to_datetime(df['date'])
DateColumn(biorhythm_data) ==
    [i \in DOMAIN biorhythm_data |->
       IF Has(biorhythm_data[i], "date")
       THEN to_datetime(biorhythm_data[i].date) ELSE NaT]

\* variant: the range starts at the date of the first row
ColumnMinFirst(col) == col[1]

\* df['date'].min(), df['date'].max(): NaT is skipped
ColumnMin(col) ==
    CHOOSE t \in {col[i] : i \in DOMAIN col} \ {NaT} :
      \A i \in DOMAIN col : col[i] # NaT => t <= col[i]
ColumnMax(col) ==
    CHOOSE t \in {col[i] : i \in DOMAIN col} \ {NaT} :
      \A i \in DOMAIN col : col[i] # NaT => t >= col[i]

\* variant: a range that stops before its end
date_rangeHalfOpen(start, end) == [i \in 1..(end - start) |-> start + (i - 1)]

\* pd.date_range(start=start, end=end, freq='D')
date_range(start, end) == [i \in 1..(end - start + 1) |-> start + (i - 1)]

\* variant: every cycle has the period of the emotional cycle
SinEmotionalPeriod(days_alive, period) == [turn |-> days_alive % 28, of |-> 28]

\* math.sin(2 * math.pi * days_alive / period): the sine of the fraction
\* (days_alive mod period) / period of a full turn
Sin(days_alive, period) == [turn |-> days_alive % period, of |-> period]

\* variant: the days are counted from the earliest date of the series
first_dateEarliest(biorhythm_data) == ColumnMin(DateColumn(biorhythm_data))

\* first_date = pd.to_datetime(first_entry['date'])
first_date(biorhythm_data) == to_datetime(biorhythm_data[1].date)

\* the loop over date_range that appends to complete_data; days_alive is
\* the loop's local variable, kept with the row it was computed for
complete_data(biorhythm_data) ==
    LET col == DateColumn(biorhythm_data)
        days == date_range(ColumnMin(col), ColumnMax(col))
        first_entry == biorhythm_data[1]
        first_days_alive == first_entry.days_alive
    IN  [i \in DOMAIN days |->
           LET single_date == days[i]
               days_diff == single_date - first_date(biorhythm_data)
               days_alive == first_days_alive + days_diff
           IN  [date |-> single_date,
                days_alive |-> days_alive,
                physical |-> Sin(days_alive, 23),
                emotional |-> Sin(days_alive, 28),
                intellectual |-> Sin(days_alive, 33)]]

create_empty_chart(message) == [kind |-> "empty", message |-> message]

\* variant: only the physical flag marks a day
IsCriticalPhysicalOnly(point) ==
    Has(point, "is_physical_critical") /\ point.is_physical_critical = TRUE

\* a row of original_df whose flag of some cycle == True (a missing flag is
\* NaN, and NaN == True is False)
IsCritical(point) ==
    \E cycle \in Cycles :
      Has(point, Flag(cycle)) /\ point[Flag(cycle)] = TRUE

\* critical_dates: the date column of the critical rows of original_df
critical_dates(biorhythm_data) ==
    DateColumn(SelectSeq(biorhythm_data, IsCritical))

\* df['date'], first_entry['date'], first_entry['days_alive'] and
\* original_df['is_..._critical'] raise KeyError for a missing key
create_biorhythm_line_chart(biorhythm_data, person_name) ==
    IF biorhythm_data = <<>>
    THEN create_empty_chart("No biorhythm data available")
    ELSE IF ~HasColumn(biorhythm_data, "date")
    THEN Raised("KeyError")
    ELSE IF \/ ~Has(biorhythm_data[1], "date")
            \/ ~Has(biorhythm_data[1], "days_alive")
    THEN Raised("KeyError")
    ELSE IF \E cycle \in Cycles : ~HasColumn(biorhythm_data, Flag(cycle))
    THEN Raised("KeyError")
    ELSE [kind |-> "line", title |-> person_name,
          dense |-> complete_data(biorhythm_data),
          critical_dates |-> critical_dates(biorhythm_data)]

\* variant: the histogram is built whatever the series
create_cycle_distribution_chartUnguarded(biorhythm_data, person_name) ==
    [kind |-> "distribution", title |-> person_name,
     points |-> Len(biorhythm_data)]

create_cycle_distribution_chart(biorhythm_data, person_name) ==
    IF biorhythm_data = <<>>
    THEN create_empty_chart("No biorhythm data available")
    ELSE [kind |-> "distribution", title |-> person_name,
          points |-> Len(biorhythm_data)]

create_critical_days_calendar(biorhythm_data, person_name) ==
    IF biorhythm_data = <<>>
    THEN create_empty_chart("No biorhythm data available")
    ELSE [kind |-> "critical_days", title |-> person_name,
          points |-> Len(biorhythm_data)]

\* latest_data = biorhythm_data[-1]; the phases are in periods of a turn
create_cycle_phase_chart(biorhythm_data, person_name) ==
    IF biorhythm_data = <<>>
    THEN create_empty_chart("No biorhythm data available")
    ELSE LET latest_data == biorhythm_data[Len(biorhythm_data)]
             days_alive == DictGet(latest_data, "days_alive", 0)
         IN  [kind |-> "phase", title |-> person_name,
              physical_phase |-> [turn |-> days_alive % 23, of |-> 23],
              emotional_phase |-> [turn |-> days_alive % 28, of |-> 28],
              intellectual_phase |-> [turn |-> days_alive % 33, of |-> 33]]

\* a float that is the square root of a fraction, with its sign: sign *
\* sqrt(num / den), num / den in lowest terms; NaN
RECURSIVE Gcd(_, _)
Gcd(m, n) == IF n = 0 THEN m ELSE Gcd(n, m % n)
Root(sign, num, den) ==
    [kind |-> "float", sign |-> sign,
     num |-> num \div Gcd(num, den), den |-> den \div Gcd(num, den)]
NaN == [kind |-> "nan"]
Sign(n) == IF n > 0 THEN 1 ELSE IF n < 0 THEN -1 ELSE 0

\* abs(x); x >= tenths / 10 for tenths > 0, False for NaN
Abs(x) ==
    IF x.kind = "nan" THEN x
    ELSE [x EXCEPT !.sign = IF x.sign < 0 THEN -x.sign ELSE x.sign]
AtLeast(x, tenths) ==
    /\ x.kind # "nan"
    /\ x.sign > 0
    /\ 100 * x.num >= tenths * tenths * x.den

\* variant: the value is compared as it is, with its sign
corr_strengthSigned(corr_val) ==
    IF AtLeast(corr_val, 7) THEN "Strong"
    ELSE IF AtLeast(corr_val, 3) THEN "Moderate"
    ELSE "Weak"

corr_strength(corr_val) ==
    LET abs_corr == Abs(corr_val) IN
      IF AtLeast(abs_corr, 7) THEN "Strong"
      ELSE IF AtLeast(abs_corr, 3) THEN "Moderate"
      ELSE "Weak"

\* the sum of the elements of a column
RECURSIVE ColumnSum(_)
ColumnSum(col) ==
    IF col = <<>> THEN 0 ELSE Head(col) + ColumnSum(Tail(col))

\* n * sum(x * y) - sum(x) * sum(y): n * n times the covariance of two
\* columns of n rows
Covariance(x, y) ==
    Len(x) * ColumnSum([i \in DOMAIN x |-> x[i] * y[i]])
      - ColumnSum(x) * ColumnSum(y)

\* Pearson's r of two columns: NaN when a variance is zero, which it is
\* for a single row
Pearson(x, y) ==
    LET divisor == Covariance(x, x) * Covariance(y, y)
        covxy == Covariance(x, y)
    IN  IF divisor = 0 THEN NaN
        ELSE Root(Sign(covxy), covxy * covxy, divisor)

\* df[cycles].corr()
corr(biorhythm_data) ==
    [a \in Cycles |-> [b \in Cycles |->
       Pearson([i \in DOMAIN biorhythm_data |-> biorhythm_data[i][a]],
               [i \in DOMAIN biorhythm_data |-> biorhythm_data[i][b]])]]

\* variant: NaN is left in the matrix
fillnaKeep(matrix, value) == matrix

\* correlation_matrix.fillna(value)
fillna(matrix, value) ==
    [a \in DOMAIN matrix |-> [b \in DOMAIN matrix[a] |->
       IF matrix[a][b].kind = "nan" THEN value ELSE matrix[a][b]]]

\* correlation_data is the matrix with 0 for NaN; stats_text labels its
\* three off-diagonal values
create_correlation_chart(biorhythm_data, person_name) ==
    IF biorhythm_data = <<>>
    THEN create_empty_chart("No biorhythm data available")
    ELSE LET correlation_matrix == fillna(corr(biorhythm_data), Root(0, 0, 1))
             corr_pe == correlation_matrix["physical"]["emotional"]
             corr_pi == correlation_matrix["physical"]["intellectual"]
             corr_ei == correlation_matrix["emotional"]["intellectual"]
         IN  [kind |-> "correlation", title |-> person_name,
              points |-> Len(biorhythm_data),
              correlation_data |-> correlation_matrix,
              stats_text |-> <<corr_strength(corr_pe), corr_strength(corr_pi),
                               corr_strength(corr_ei)>>]

\* the builders of the charts of a point series
ChartBuilders ==
    {"create_biorhythm_line_chart", "create_cycle_distribution_chart",
     "create_critical_days_calendar", "create_cycle_phase_chart",
     "create_correlation_chart"}

BuildChart(fn, biorhythm_data, person_name) ==
    IF fn = "create_biorhythm_line_chart"
    THEN create_biorhythm_line_chart(biorhythm_data, person_name)
    ELSE IF fn = "create_cycle_distribution_chart"
    THEN create_cycle_distribution_chart(biorhythm_data, person_name)
    ELSE IF fn = "create_critical_days_calendar"
    THEN create_critical_days_calendar(biorhythm_data, person_name)
    ELSE IF fn = "create_cycle_phase_chart"
    THEN create_cycle_phase_chart(biorhythm_data, person_name)
    ELSE create_correlation_chart(biorhythm_data, person_name)

NoChart == [fn |-> "none", data |-> <<>>, out |-> None]

----------------------------------------------------------------------------
(* views: each view is a function of the results of the calls it makes to  *)
(* api_client and of the parameters of its request.  It ends with a        *)
(* response, or with an exception that leaves it.                          *)

\* the bodies the calls of a view may return, None being the Absent result
InfoBodies == {None, [kind |-> "info"]}
GlobalStatsBodies == {None, [kind |-> "global_stats"]}
PeopleBodies ==
    {None, [kind |-> "people", results |-> <<1, 2>>], [kind |-> "people"]}
PersonBodies ==
    {None, [kind |-> "person", name |-> "Ann"], [kind |-> "person"]}
SeriesBodies ==
    {None,
     [kind |-> "series"],
     [kind |-> "series", biorhythm_data |-> <<>>],
     [kind |-> "series",
      biorhythm_data |-> <<Sample("2024-01-01", 10000),
                           Sample("2024-01-05", 10004)>>],
     [kind |-> "series",
      biorhythm_data |-> <<Without(Sample("2024-01-01", 10000),
                                   "days_alive")>>]}
StatsBodies ==
    {None, [kind |-> "stats", statistics |-> [kind |-> "statistics"]],
     [kind |-> "stats"]}
CalculationBodies ==
    {None, [kind |-> "calculation", data_points_created |-> 365]}

\* the results of the calls a view may make
Upstreams ==
    [info : InfoBodies, global_stats : GlobalStatsBodies,
     people : PeopleBodies, person : PersonBodies, series : SeriesBodies,
     statistics : StatsBodies, calculation : CalculationBodies]

NoUpstream ==
    [info |-> None, global_stats |-> None, people |-> None, person |-> None,
     series |-> None, statistics |-> None, calculation |-> None]

\* the parameters of a request: GET start_date, GET search, POST days
NoParams == [start_date |-> "", search |-> "", days |-> "365"]

\* datetime.strptime(s, '%Y-%m-%d') and int(s) raise ValueError for a
\* string that is not a date, not a number
IsDate(str) == str \in {Calendar[t] : t \in DOMAIN Calendar}
IsInt(str) == str \in {"365", "30"}

\* a Python list, a message
List(items) == [kind |-> "list", items |-> items]
Message(text) == [kind |-> "message", text |-> text]

render(template, context) ==
    [kind |-> "html", template |-> template, context |-> context]

JsonResponse(data) == [kind |-> "json", data |-> data]

\* JsonResponse({'chart_data': chart_data, 'config': get_chart_config()})
ChartResponse(chart_data) ==
    JsonResponse([chart_data |-> chart_data, config |-> "chart_config"])

\* try: ... except Exception as e: return handler
Try(result, handler) == IF result.kind = "raised" THEN handler ELSE result

create_statistics_summary_chart(statistics, person_name) ==
    IF ~Truthy(statistics) \/ "statistics" \notin DOMAIN statistics
    THEN create_empty_chart("No statistics data available")
    ELSE [kind |-> "statistics_summary", title |-> person_name]

dashboard_home(u, q) ==
    LET api_connected == Truthy(u.info) IN
      render("dashboard/home.html",
        [api_connected |-> api_connected,
         api_info |-> IF api_connected THEN u.info ELSE None,
         people |-> IF /\ api_connected
                       /\ Truthy(u.people)
                       /\ "results" \in DOMAIN u.people
                    THEN List(u.people.results) ELSE List(<<>>),
         global_stats |-> IF api_connected /\ Truthy(u.global_stats)
                          THEN u.global_stats ELSE None,
         error_message |->
           IF api_connected THEN None
           ELSE Message("Unable to connect to PyBiorythm API.")])

\* start_date from the query, kept only if strptime accepts it
person_dashboard(u, q) ==
    IF ~Truthy(u.person)
    THEN render("dashboard/person_dashboard.html",
           [person |-> None, biorhythm_data |-> None, statistics |-> None,
            data_info |-> None,
            error_message |-> Message("Person with ID not found.")])
    ELSE LET start_date == IF q.start_date # "" /\ IsDate(q.start_date)
                           THEN q.start_date ELSE "today - 365"
             has_data == /\ Truthy(u.series)
                         /\ "biorhythm_data" \in DOMAIN u.series
         IN  render("dashboard/person_dashboard.html",
               [person |-> u.person,
                biorhythm_data |-> IF has_data
                                   THEN List(u.series.biorhythm_data)
                                   ELSE None,
                data_info |-> IF has_data
                              THEN [kind |-> "data_info",
                                    start_date |-> start_date]
                              ELSE None,
                statistics |-> IF Truthy(u.statistics) THEN u.statistics
                               ELSE None,
                error_message |-> None])

\* the body shared by the chart views of a point series: the person, the
\* series, the builder fn, each inside the view's try block
SeriesChart(u, fn, no_data) ==
    IF ~Truthy(u.person)
    THEN ChartResponse(create_empty_chart("Person not found"))
    ELSE IF Truthy(u.series) /\ "biorhythm_data" \in DOMAIN u.series
    THEN IF "name" \in DOMAIN u.person
         THEN LET chart_data ==
                    BuildChart(fn, u.series.biorhythm_data, u.person.name)
              IN  IF chart_data.kind = "raised" THEN chart_data
                  ELSE ChartResponse(chart_data)
         ELSE Raised("KeyError")
    ELSE ChartResponse(create_empty_chart(no_data))

ErrorLoading == ChartResponse(create_empty_chart("Error loading chart data"))

chart_biorhythm_line(u, q) ==
    Try(IF q.start_date # "" /\ ~IsDate(q.start_date)
        THEN Raised("ValueError")
        ELSE SeriesChart(u, "create_biorhythm_line_chart",
                         "No biorhythm data available"),
        ErrorLoading)

chart_distribution(u, q) ==
    Try(SeriesChart(u, "create_cycle_distribution_chart",
                    "No biorhythm data available"),
        ErrorLoading)

chart_critical_days(u, q) ==
    Try(SeriesChart(u, "create_critical_days_calendar",
                    "No biorhythm data available"),
        ErrorLoading)

chart_cycle_phases(u, q) ==
    Try(SeriesChart(u, "create_cycle_phase_chart",
                    "No recent biorhythm data available"),
        ErrorLoading)

chart_correlation(u, q) ==
    Try(SeriesChart(u, "create_correlation_chart",
                    "No biorhythm data available"),
        ChartResponse(create_empty_chart("Error: str(e)")))

chart_statistics(u, q) ==
    Try(IF ~Truthy(u.person)
        THEN ChartResponse(create_empty_chart("Person not found"))
        ELSE IF Truthy(u.statistics)
        THEN IF "name" \in DOMAIN u.person
             THEN ChartResponse(
                    create_statistics_summary_chart(u.statistics,
                                                    u.person.name))
             ELSE Raised("KeyError")
        ELSE ChartResponse(create_empty_chart("No statistics available")),
        ErrorLoading)

\* the view calculate_biorhythm
calculate_biorhythm_view(u, q) ==
    Try(IF ~IsInt(q.days) THEN Raised("ValueError")
        ELSE IF Truthy(u.calculation)
        THEN render("dashboard/calculation_success.html",
               [calculation |-> DictGet(u.calculation, "calculation", Empty),
                data_points_created |->
                  DictGet(u.calculation, "data_points_created", 0)])
        ELSE render("dashboard/calculation_error.html",
               [error |-> Message("Calculation failed")]),
        render("dashboard/calculation_error.html",
               [error |-> Message("str(e)")]))

api_status(u, q) ==
    JsonResponse([connected |-> Truthy(u.info),
                  info |-> IF Truthy(u.info) THEN u.info ELSE Empty])

\* variant: the results are read without looking at people_data first
people_list_partial_viewUnguarded(u, q) ==
    IF u.people = None THEN Raised("AttributeError")
    ELSE render("dashboard/partials/people_list.html",
           [people |-> List(DictGet(u.people, "results", <<>>)),
            search_query |-> q.search])

\* the view people_list_partial: people_data is the result of get_people
\* for a search, of get_people_cached otherwise
people_list_partial_view(u, q) ==
    render("dashboard/partials/people_list.html",
      [people |-> IF Truthy(u.people)
                  THEN List(DictGet(u.people, "results", <<>>))
                  ELSE List(<<>>),
       search_query |-> q.search])

person_info_partial(u, q) ==
    render("dashboard/partials/person_info.html",
      [person |-> u.person, statistics |-> u.statistics])

test_simple_correlation_view(u, q) ==
    Try(IF Truthy(u.series) /\ "biorhythm_data" \in DOMAIN u.series
        THEN IF u.series.biorhythm_data = <<>>
             THEN Raised("KeyError")
             ELSE ChartResponse([kind |-> "correlation",
                                 title |-> "Simplified Correlation Heatmap",
                                 points |-> Len(u.series.biorhythm_data)])
        ELSE ChartResponse(create_empty_chart("No data available")),
        ChartResponse(create_empty_chart("Error: str(e)")))

debug_correlation_data(u, q) ==
    Try(IF Truthy(u.series) /\ "biorhythm_data" \in DOMAIN u.series
        THEN IF u.series.biorhythm_data = <<>>
             THEN Raised("KeyError")
             ELSE JsonResponse(
                    [data_points |-> Len(u.series.biorhythm_data)])
        ELSE JsonResponse(
               [error |-> Message("No biorhythm data available")]),
        JsonResponse([error |-> Message("str(e)")]))

\* the views that call the data-access layer
Views ==
    {"dashboard_home", "person_dashboard", "chart_biorhythm_line",
     "chart_distribution", "chart_critical_days", "chart_cycle_phases",
     "chart_correlation", "chart_statistics", "calculate_biorhythm",
     "api_status", "people_list_partial", "person_info_partial",
     "test_simple_correlation_view", "debug_correlation_data"}

\* the URL dispatch
Respond(name, u, q) ==
    CASE name = "dashboard_home" -> dashboard_home(u, q)
      [] name = "person_dashboard" -> person_dashboard(u, q)
      [] name = "chart_biorhythm_line" -> chart_biorhythm_line(u, q)
      [] name = "chart_distribution" -> chart_distribution(u, q)
      [] name = "chart_critical_days" -> chart_critical_days(u, q)
      [] name = "chart_cycle_phases" -> chart_cycle_phases(u, q)
      [] name = "chart_correlation" -> chart_correlation(u, q)
      [] name = "chart_statistics" -> chart_statistics(u, q)
      [] name = "calculate_biorhythm" -> calculate_biorhythm_view(u, q)
      [] name = "api_status" -> api_status(u, q)
      [] name = "people_list_partial" -> people_list_partial_view(u, q)
      [] name = "person_info_partial" -> person_info_partial(u, q)
      [] name = "test_simple_correlation_view" ->
           test_simple_correlation_view(u, q)
      [] OTHER -> debug_correlation_data(u, q)

\* the parameters a request to the view may carry
ParamsOf(name) ==
    IF name \in {"person_dashboard", "chart_biorhythm_line"}
    THEN {[NoParams EXCEPT !.start_date = d] :
            d \in {"", "2024-01-01", "01/01/2024"}}
    ELSE IF name = "calculate_biorhythm"
    THEN {[NoParams EXCEPT !.days = d] : d \in {"365", "30", "many"}}
    ELSE IF name = "people_list_partial"
    THEN {[NoParams EXCEPT !.search = x] : x \in Searches}
    ELSE {NoParams}

NoView ==
    [name |-> "none", upstream |-> NoUpstream, params |-> NoParams,
     response |-> None]

----------------------------------------------------------------------------
(* PyBiorythmAPIClient: the credential state of one client instance.  A    *)
(* token is a string, the empty string being the token that is not set.    *)
(* History kept for the properties: granted is the token the last           *)
(* successful authenticate obtained; sent.granted is its value when the     *)
(* request was sent.                                                        *)

\* settings.PYBIORYTHM_API_TOKEN: not set, or configured
SettingsTokens == {"", "t0"}

\* the tokens a credential-exchange response may carry
ResponseTokens == {"", "t1", "t2"}

NotGranted == "not granted"

NoHeaders == [h \in {} |-> ""]

\* session.headers.update(new)
HeadersUpdate(headers, new) ==
    [h \in DOMAIN headers \cup DOMAIN new |->
        IF h \in DOMAIN new THEN new[h] ELSE headers[h]]

\* __init__: the headers are set only if the configured token is truthy
PyBiorythmAPIClient(token) ==
    [token |-> token,
     headers |-> IF token # ""
                 THEN HeadersUpdate(NoHeaders,
                        ("Authorization" :> "Token " \o token)
                        @@ ("Content-Type" :> "application/json"))
                 ELSE NoHeaders,
     granted |-> NotGranted]

NoSent ==
    [made |-> FALSE, method |-> "none", endpoint |-> "none",
     headers |-> NoHeaders, exchange |-> None, result |-> None,
     granted |-> NotGranted]

\* the request _make_request sends with the session's headers, and its result
Sent(method, endpoint, x) ==
    [made |-> TRUE, method |-> method, endpoint |-> endpoint,
     headers |-> client.headers, exchange |-> x, result |-> Returned(x),
     granted |-> client.granted]

\* the bodies of the remote API's answers to the requests of ClientSpec
InfoData == [kind |-> "info"]
GlobalStatsData == [kind |-> "global_stats"]
TokenData(t) == [kind |-> "token", token |-> t]
DetailData == [kind |-> "detail"]

AuthBodies == {TokenData(t) : t \in ResponseTokens} \cup {DetailData}

\* module start: api_client = CachedAPIClient(), whose client is configured
\* without a token
Init ==
    /\ CacheInit
    /\ client = PyBiorythmAPIClient("")
    /\ sent = NoSent
    /\ chart = NoChart
    /\ view = NoView

\* return self._make_request('GET', '')
get_api_info ==
    /\ \E x \in Exchanges(InfoData) : sent' = Sent("GET", "", x)
    /\ UNCHANGED <<client, cachevars, viewvars>>

\* return self._make_request('GET', 'statistics/')
get_global_statistics ==
    /\ \E x \in Exchanges(GlobalStatsData) :
         sent' = Sent("GET", "statistics/", x)
    /\ UNCHANGED <<client, cachevars, viewvars>>

\* variant: the token is kept but the session headers are not updated
authenticateKeepHeaders ==
    /\ \E body \in AuthBodies : \E x \in Exchanges(body) :
         LET response == Returned(x) IN
           /\ sent' = Sent("POST", "auth/token/", x)
           /\ client' = IF Truthy(response) /\ response.kind = "token"
                        THEN [client EXCEPT !.token = response.token,
                                            !.granted = response.token]
                        ELSE client
    /\ UNCHANGED <<cachevars, viewvars>>

\* response = self._make_request('POST', 'auth/token/', json=data);
\* if response and 'token' in response: set self.token and the header
authenticate ==
    /\ \E body \in AuthBodies : \E x \in Exchanges(body) :
         LET response == Returned(x) IN
           /\ sent' = Sent("POST", "auth/token/", x)
           /\ client' = IF Truthy(response) /\ response.kind = "token"
                        THEN [token |-> response.token,
                              headers |-> HeadersUpdate(client.headers,
                                 "Authorization" :> "Token " \o response.token),
                              granted |-> response.token]
                        ELSE client
    /\ UNCHANGED <<cachevars, viewvars>>

\* a client is constructed from the settings
ClientInit ==
    /\ CacheInit
    /\ \E token \in SettingsTokens : client = PyBiorythmAPIClient(token)
    /\ sent = NoSent
    /\ chart = NoChart
    /\ view = NoView

ClientNext ==
    \/ get_api_info
    \/ get_global_statistics
    \/ authenticate

ClientSpec == ClientInit /\ [][ClientNext]_vars

----------------------------------------------------------------------------
(* The callers of the chart builders *)

\* a caller has a sparse series to draw
ChartInit ==
    /\ CacheInit
    /\ client = PyBiorythmAPIClient("")
    /\ sent = NoSent
    /\ view = NoView
    /\ \E biorhythm_data \in
           SparseSeries \cup FlaggedSeries \cup CycleSeries :
         chart = [fn |-> "none", data |-> biorhythm_data, out |-> None]

\* the caller calls the builder fn with its series
Draw(fn) ==
    /\ chart' = [fn |-> fn, data |-> chart.data,
                 out |-> BuildChart(fn, chart.data, "Ann")]
    /\ UNCHANGED <<cachevars, clientvars, view>>

ChartNext ==
    \/ Draw("create_biorhythm_line_chart")
    \/ Draw("create_cycle_distribution_chart")
    \/ Draw("create_critical_days_calendar")
    \/ Draw("create_cycle_phase_chart")
    \/ Draw("create_correlation_chart")

ChartSpec == ChartInit /\ [][ChartNext]_vars

\* a caller has a series with a point that lacks a key, and asks for the
\* line chart
ReconstructInit ==
    /\ CacheInit
    /\ client = PyBiorythmAPIClient("")
    /\ sent = NoSent
    /\ view = NoView
    /\ \E biorhythm_data \in MalformedSeries :
         chart = [fn |-> "none", data |-> biorhythm_data, out |-> None]

ReconstructNext == Draw("create_biorhythm_line_chart")

ReconstructSpec == ReconstructInit /\ [][ReconstructNext]_vars

\* a correlation value r, in hundredths, is to be labelled
Hundredths(r) == Root(Sign(r), r * r, 10000)

LabelInit ==
    /\ CacheInit
    /\ client = PyBiorythmAPIClient("")
    /\ sent = NoSent
    /\ view = NoView
    /\ \E r \in -100..100 :
         chart = [fn |-> "none", data |-> r, out |-> None]

\* stats_text labels the value
Label ==
    /\ chart' = [fn |-> "corr_strength", data |-> chart.data,
                 out |-> Message(corr_strength(Hundredths(chart.data)))]
    /\ UNCHANGED <<cachevars, clientvars, view>>

LabelNext == Label

LabelSpec == LabelInit /\ [][LabelNext]_vars

----------------------------------------------------------------------------
(* The requests to the views *)

\* the data-access layer is about to answer the calls of a view
ViewInit ==
    /\ CacheInit
    /\ client = PyBiorythmAPIClient("")
    /\ sent = NoSent
    /\ chart = NoChart
    /\ \E u \in Upstreams : view = [NoView EXCEPT !.upstream = u]

\* a request is routed to the view and answered
Serve(name) ==
    /\ \E q \in ParamsOf(name) :
         view' = [name |-> name, upstream |-> view.upstream, params |-> q,
                  response |-> Respond(name, view.upstream, q)]
    /\ UNCHANGED <<cachevars, clientvars, chart>>

ViewNext == \E name \in Views : Serve(name)

ViewSpec == ViewInit /\ [][ViewNext]_vars

----------------------------------------------------------------------------
(* The read path shared by the three cached reads *)

\* variant: a hit that restarts the entry's timeout
ReadGetTouch(pr, key) ==
    /\ req[pr].pc = "get"
    /\ LET cached_data == CacheGet(cache, key) IN
         /\ req' = [req EXCEPT
                      ![pr].seen = Holds(cache, key),
                      ![pr].cached_data = cached_data,
                      ![pr].pc = IF Truthy(cached_data) THEN "done" ELSE "fetch",
                      ![pr].ret = IF Truthy(cached_data) THEN cached_data
                                  ELSE None]
         /\ cache' = IF Truthy(cached_data)
                     THEN [cache EXCEPT ![key].ttl = cache_timeout * 2]
                     ELSE cache
    /\ UNCHANGED gen

\* variant: the cached value is looked up but never used
ReadGetAlwaysMiss(pr, key) ==
    /\ req[pr].pc = "get"
    /\ req' = [req EXCEPT ![pr].seen = Holds(cache, key),
                          ![pr].cached_data = CacheGet(cache, key),
                          ![pr].pc = "fetch"]
    /\ UNCHANGED <<cache, gen>>

\* cached_data = cache.get(cache_key); if cached_data: return cached_data
ReadGet(pr, key) ==
    /\ req[pr].pc = "get"
    /\ LET cached_data == CacheGet(cache, key) IN
         req' = [req EXCEPT
                   ![pr].seen = Holds(cache, key),
                   ![pr].cached_data = cached_data,
                   ![pr].pc = IF Truthy(cached_data) THEN "done" ELSE "fetch",
                   ![pr].ret = IF Truthy(cached_data) THEN cached_data ELSE None]
    /\ UNCHANGED <<cache, gen>>

\* data = self.client.get_...(...)
ReadFetch(pr, responses) ==
    /\ req[pr].pc = "fetch"
    /\ \E data \in responses :
         req' = [req EXCEPT ![pr].data = data,
                            ![pr].calls = @ + 1,
                            ![pr].pc = "set"]
    /\ UNCHANGED <<cache, gen>>

\* variant: the result is stored unless it is None
ReadSetNotNone(pr, key, timeout, stamp) ==
    /\ req[pr].pc = "set"
    /\ cache' = IF req[pr].data # None
                THEN CacheSet(cache, key, req[pr].data, timeout, stamp)
                ELSE cache
    /\ req' = [req EXCEPT ![pr].ret = req[pr].data, ![pr].pc = "done"]
    /\ UNCHANGED gen

\* variant: the result is stored whatever it is
ReadSetUnconditional(pr, key, timeout, stamp) ==
    /\ req[pr].pc = "set"
    /\ cache' = CacheSet(cache, key, req[pr].data, timeout, stamp)
    /\ req' = [req EXCEPT ![pr].ret = req[pr].data, ![pr].pc = "done"]
    /\ UNCHANGED gen

\* if data: cache.set(cache_key, data, timeout); return data
ReadSet(pr, key, timeout, stamp) ==
    /\ req[pr].pc = "set"
    /\ cache' = IF Truthy(req[pr].data)
                THEN CacheSet(cache, key, req[pr].data, timeout, stamp)
                ELSE cache
    /\ req' = [req EXCEPT ![pr].ret = req[pr].data, ![pr].pc = "done"]
    /\ UNCHANGED gen

----------------------------------------------------------------------------
(* CachedAPIClient *)

\* variant: the list is requested with a search term
get_people_cachedWithSearch(pr) ==
    /\ req[pr].op = "get_people_cached"
    /\ \/ ReadGet(pr, KeyPeople)
       \/ ReadFetch(pr, get_people("ann"))
       \/ ReadSet(pr, KeyPeople, cache_timeout, gen)

get_people_cached(pr) ==
    /\ req[pr].op = "get_people_cached"
    /\ \/ ReadGet(pr, KeyPeople)
       \/ ReadFetch(pr, get_people(""))
       \/ ReadSet(pr, KeyPeople, cache_timeout, gen)

\* variant: the person entry is stored with the statistics timeout
get_person_cachedLongTimeout(pr) ==
    /\ req[pr].op = "get_person_cached"
    /\ LET p == req[pr].person IN
         \/ ReadGet(pr, KeyPerson(p))
         \/ ReadFetch(pr, get_person(p))
         \/ ReadSet(pr, KeyPerson(p), cache_timeout * 2, gen[p])

get_person_cached(pr) ==
    /\ req[pr].op = "get_person_cached"
    /\ LET p == req[pr].person IN
         \/ ReadGet(pr, KeyPerson(p))
         \/ ReadFetch(pr, get_person(p))
         \/ ReadSet(pr, KeyPerson(p), cache_timeout, gen[p])

get_person_statistics_cached(pr) ==
    /\ req[pr].op = "get_person_statistics_cached"
    /\ LET p == req[pr].person IN
         \/ ReadGet(pr, KeyStats(p))
         \/ ReadFetch(pr, get_person_statistics(p))
         \/ ReadSet(pr, KeyStats(p), cache_timeout * 2, gen[p])

\* cache.delete_many(cache_keys); the store may fail to carry it out, and
\* the exception then leaves the method
DeleteStep(pr, next) ==
    /\ req[pr].pc = "delete"
    /\ \/ /\ cache' = CacheDeleteMany(cache, InvalidateKeys(req[pr].person))
          /\ req' = [req EXCEPT ![pr].pc = next]
       \/ /\ req' = [req EXCEPT ![pr].pc = "raised"]
          /\ UNCHANGED cache
    /\ UNCHANGED gen

invalidate_person_cache(pr) ==
    /\ req[pr].op = "invalidate_person_cache"
    /\ DeleteStep(pr, "done")

\* variant: the point series is stored like the other resources
get_biorhythm_data_freshCaching(pr) ==
    /\ req[pr].op = "get_biorhythm_data_fresh"
    /\ req[pr].pc = "fetch"
    /\ \E data \in get_person_biorhythm_data(req[pr].person, req[pr].args) :
         /\ req' = [req EXCEPT ![pr].data = data, ![pr].ret = data,
                               ![pr].calls = @ + 1, ![pr].pc = "done"]
         /\ cache' = IF Truthy(data)
                     THEN CacheSet(cache,
                                   "api_biorhythm_" \o ToString(req[pr].person),
                                   data, cache_timeout, gen[req[pr].person])
                     ELSE cache
    /\ UNCHANGED gen

\* return self.client.get_person_biorhythm_data(person_id, ...)
get_biorhythm_data_fresh(pr) ==
    /\ req[pr].op = "get_biorhythm_data_fresh"
    /\ req[pr].pc = "fetch"
    /\ \E data \in get_person_biorhythm_data(req[pr].person, req[pr].args) :
         req' = [req EXCEPT ![pr].data = data, ![pr].ret = data,
                            ![pr].calls = @ + 1, ![pr].pc = "done"]
    /\ UNCHANGED <<cache, gen>>

\* variant: the filtered people list is stored under the people-list key
get_people_uncachedStoring(pr) ==
    /\ req[pr].op = "get_people"
    /\ req[pr].pc = "fetch"
    /\ \E data \in get_people(req[pr].args.search) :
         /\ req' = [req EXCEPT ![pr].data = data, ![pr].ret = data,
                               ![pr].calls = @ + 1, ![pr].pc = "done"]
         /\ cache' = IF Truthy(data)
                     THEN CacheSet(cache, KeyPeople, data, cache_timeout, gen)
                     ELSE cache
    /\ UNCHANGED gen

\* api_client.client.get_people(search=search): the filtered people list,
\* requested from the remote API without going through the store
get_people_uncached(pr) ==
    /\ req[pr].op = "get_people"
    /\ req[pr].pc = "fetch"
    /\ \E data \in get_people(req[pr].args.search) :
         req' = [req EXCEPT ![pr].data = data, ![pr].ret = data,
                            ![pr].calls = @ + 1, ![pr].pc = "done"]
    /\ UNCHANGED <<cache, gen>>

\* variant: the keys are deleted whatever the result
calculate_biorhythmThenDelete(pr) ==
    /\ req[pr].pc = "write"
    /\ LET p == req[pr].person IN
         \/ /\ gen[p] < MaxGen
            /\ gen' = [gen EXCEPT ![p] = @ + 1]
            /\ req' = [req EXCEPT ![pr].data = CalcResult(p, gen[p] + 1),
                                  ![pr].calls = @ + 1,
                                  ![pr].pc = "delete"]
         \/ /\ UNCHANGED gen
            /\ req' = [req EXCEPT ![pr].data = None,
                                  ![pr].calls = @ + 1,
                                  ![pr].pc = "delete"]
    /\ UNCHANGED cache

\* PyBiorythmAPIClient.calculate_biorhythm: the POST either is carried out,
\* which adds a calculation to the person's data, or fails and yields None
calculate_biorhythm(pr) ==
    /\ req[pr].pc = "write"
    /\ LET p == req[pr].person IN
         \/ /\ gen[p] < MaxGen
            /\ gen' = [gen EXCEPT ![p] = @ + 1]
            /\ req' = [req EXCEPT ![pr].data = CalcResult(p, gen[p] + 1),
                                  ![pr].calls = @ + 1,
                                  ![pr].pc = "delete"]
         \/ /\ UNCHANGED gen
            /\ req' = [req EXCEPT ![pr].data = None,
                                  ![pr].calls = @ + 1,
                                  ![pr].pc = "return"]
    /\ UNCHANGED cache

\* variant: the result is returned without the invalidation
calculate_biorhythm_no_invalidate(pr) ==
    /\ req[pr].op = "calculate_biorhythm_and_invalidate"
    /\ \/ calculate_biorhythm(pr)
       \/ /\ req[pr].pc \in {"delete", "return"}
          /\ req' = [req EXCEPT ![pr].ret = req[pr].data, ![pr].pc = "done"]
          /\ UNCHANGED <<cache, gen>>

\* result = self.client.calculate_biorhythm(...);
\* if result: self.invalidate_person_cache(person_id); return result
calculate_biorhythm_and_invalidate(pr) ==
    /\ req[pr].op = "calculate_biorhythm_and_invalidate"
    /\ \/ calculate_biorhythm(pr)
       \/ DeleteStep(pr, "return")
       \/ /\ req[pr].pc = "return"
          /\ req' = [req EXCEPT ![pr].ret = req[pr].data, ![pr].pc = "done"]
          /\ UNCHANGED <<cache, gen>>

----------------------------------------------------------------------------
(* Callers *)

\* a caller in a free request slot calls method o
Call(pr, o, p, a, start) ==
    /\ Finished(req[pr])
    /\ req' = [req EXCEPT ![pr] =
                NewReq(o, p, a, start,
                       IF o = "calculate_biorhythm_and_invalidate"
                       THEN Holds(cache, KeyStats(p)) ELSE "none",
                       Follows(req[pr], o, p))]
    /\ UNCHANGED <<cache, gen>>

StartRead(pr, persons) ==
    \/ Call(pr, "get_people_cached", 0, NoArgs, "get")
    \/ \E p \in persons : Call(pr, "get_person_cached", p, NoArgs, "get")
    \/ \E p \in persons :
         Call(pr, "get_person_statistics_cached", p, NoArgs, "get")

\* the calculate view: int(request.POST.get('days', 365)) raises
\* ValueError before api_client is called, and the view's except clause
\* renders the error
StartCalculate(pr, persons) ==
    \E p \in persons \cap CalcPersons, days \in {"365", "many"} :
      IF IsInt(days)
      THEN Call(pr, "calculate_biorhythm_and_invalidate", p, NoArgs, "write")
      ELSE Call(pr, "calculate_biorhythm_view", p, NoArgs, "raised")

\* people_list_partial: a search goes to the remote API directly, the
\* unfiltered list is read through the store
people_list_partial(pr) ==
    \E search \in Searches :
      IF search # ""
      THEN Call(pr, "get_people", 0, [NoArgs EXCEPT !.search = search], "fetch")
      ELSE Call(pr, "get_people_cached", 0, NoArgs, "get")

StartOther(pr, persons) ==
    \/ people_list_partial(pr)
    \/ \E p \in persons :
         Call(pr, "invalidate_person_cache", p, NoArgs, "delete")
    \/ \E p \in persons, a \in FreshArgs :
         Call(pr, "get_biorhythm_data_fresh", p, a, "fetch")

Step(pr) ==
    \/ get_people_cached(pr)
    \/ get_person_cached(pr)
    \/ get_person_statistics_cached(pr)
    \/ invalidate_person_cache(pr)
    \/ get_biorhythm_data_fresh(pr)
    \/ get_people_uncached(pr)
    \/ calculate_biorhythm_and_invalidate(pr)

\* time passes
Tick ==
    /\ \E d \in Elapse : cache' = CacheElapse(cache, d)
    /\ UNCHANGED <<gen, req, clientvars, viewvars>>

\* one request at a time
Next ==
    \/ \E pr \in SerialProcs : StartRead(pr, Persons) /\ UNCHANGED <<clientvars, viewvars>>
    \/ \E pr \in SerialProcs :
         StartCalculate(pr, Persons) /\ UNCHANGED <<clientvars, viewvars>>
    \/ \E pr \in SerialProcs : StartOther(pr, Persons) /\ UNCHANGED <<clientvars, viewvars>>
    \/ \E pr \in SerialProcs : Step(pr) /\ UNCHANGED <<clientvars, viewvars>>
    \/ Tick

Spec == Init /\ [][Next]_vars

StepConc(pr) ==
    \/ get_people_cached(pr)
    \/ get_person_cached(pr)
    \/ get_person_statistics_cached(pr)
    \/ calculate_biorhythm_and_invalidate(pr)

\* cached reads in the slots of Readers run concurrently with calculations
\* in the slots of Writers
NextConc ==
    \/ \E pr \in Readers : StartRead(pr, ConcPersons) /\ UNCHANGED <<clientvars, viewvars>>
    \/ \E pr \in Writers :
         StartCalculate(pr, ConcPersons) /\ UNCHANGED <<clientvars, viewvars>>
    \/ \E pr \in Procs : StepConc(pr) /\ UNCHANGED <<clientvars, viewvars>>
    \/ Tick

\* the clock never stops
ConcSpec == Init /\ [][NextConc]_vars /\ WF_vars(Tick)

----------------------------------------------------------------------------
(* Properties *)

IsRead(r) == r.op \in ReadOps
ReadKey(r) == KeyOf(r.op, r.person)

\* C1: a cached read that finds a live (stored, not expired, not deleted)
\* entry under its key returns exactly the stored value and makes no
\* upstream call, whatever the remote API would return now.
C1_HitServesStoredValue ==
    \A pr \in Procs :
      LET r == req[pr] IN
        (IsRead(r) /\ r.seen = "live") =>
          /\ r.pc = "done"
          /\ r.calls = 0
          /\ ReadKey(r) \in DOMAIN cache
          /\ r.ret = cache[ReadKey(r)].value

\* a hit served while the remote data has moved on
C1_Witness ==
    \E pr \in Procs :
      LET r == req[pr] IN
        /\ r.op = "get_person_statistics_cached"
        /\ r.seen = "live"
        /\ r.pc = "done"
        /\ r.ret.gen < gen[r.person]

\* the step of a read that found an expired entry, from "set" to "done"
C2_SetStep(pr) ==
    /\ IsRead(req[pr])
    /\ req[pr].seen = "expired"
    /\ req[pr].pc = "set"
    /\ req'[pr].pc = "done"

C2_Stored(pr) ==
    /\ ReadKey(req[pr]) \in DOMAIN cache'
    /\ cache'[ReadKey(req[pr])].value = req[pr].data
    /\ cache'[ReadKey(req[pr])].ttl = TimeoutOf(req[pr].op)
    /\ req'[pr].ret = req[pr].data

C2_OneCall ==
    \A pr \in Procs :
      LET r == req[pr] IN
        (IsRead(r) /\ r.seen = "expired") =>
          /\ r.pc \in {"fetch", "set", "done"}
          /\ r.calls = (IF r.pc = "fetch" THEN 0 ELSE 1)

\* C2 as claimed: a cached read of a key whose entry has expired makes
\* exactly one upstream call, and when the call returns a value other than
\* None the store afterwards holds that value under the key with the full
\* timeout and the read returns it.
C2_Original ==
    /\ []C2_OneCall
    /\ [][\A pr \in Procs :
            (C2_SetStep(pr) /\ req[pr].data # None) => C2_Stored(pr)]_vars

\* C2 as amended: ... when the call returns a truthy value (neither None nor
\* an empty body) the store afterwards holds that value under the key with
\* the full timeout and the read returns it.
C2_ExpiredReadRefetches ==
    /\ []C2_OneCall
    /\ [][\A pr \in Procs :
            (C2_SetStep(pr) /\ Truthy(req[pr].data)) => C2_Stored(pr)]_vars

\* an expired entry replaced by the value just fetched, with the full timeout
C2_Witness ==
    \E pr \in Procs :
      LET r == req[pr] IN
        /\ IsRead(r)
        /\ r.seen = "expired"
        /\ r.pc = "done"
        /\ r.calls = 1
        /\ Truthy(r.ret)
        /\ ReadKey(r) \in DOMAIN cache
        /\ cache[ReadKey(r)].value = r.ret
        /\ cache[ReadKey(r)].ttl = TimeoutOf(r.op)

\* C3: no step of a cached read whose upstream call yields None changes the
\* store, and the read returns None.
C3_AbsentNotCached ==
    [][\A pr \in Procs :
         (/\ req'[pr] # req[pr]
          /\ IsRead(req'[pr])
          /\ req'[pr].data = None)
         => /\ cache' = cache
            /\ (req'[pr].pc = "done" /\ req'[pr].calls = 1)
                 => req'[pr].ret = None]_vars

\* a miss answered with None: nothing stored under the key
C3_Witness ==
    \E pr \in Procs :
      LET r == req[pr] IN
        /\ IsRead(r)
        /\ r.pc = "done"
        /\ r.seen = "absent"
        /\ r.calls = 1
        /\ r.data = None
        /\ r.ret = None
        /\ ReadKey(r) \notin DOMAIN cache

\* the read directly follows an invalidation of its person that returned
AfterInvalidation(r) ==
    /\ r.op \in PersonReadOps
    /\ \/ r.after.op = "invalidate_person_cache" /\ r.after.outcome = "returned"
       \/ /\ r.after.op = "calculate_biorhythm_and_invalidate"
          /\ r.after.outcome = "result"

\* C4: the get_person_cached(p) or get_person_statistics_cached(p) that
\* directly follows a returned invalidate_person_cache(p) finds no live
\* entry, goes upstream once and returns what that upstream call returned.
C4_ReadAfterInvalidateGoesUpstream ==
    \A pr \in Procs :
      LET r == req[pr] IN
        AfterInvalidation(r) =>
          /\ r.seen \in {"none", "absent"}
          /\ r.cached_data = None
          /\ r.pc = "done" => (r.calls = 1 /\ r.ret = r.data)

\* a statistics read right after invalidate_person_cache, served from upstream
C4_Witness ==
    \E pr \in Procs :
      LET r == req[pr] IN
        /\ r.op = "get_person_statistics_cached"
        /\ r.after.op = "invalidate_person_cache"
        /\ r.after.outcome = "returned"
        /\ r.pc = "done"
        /\ Truthy(r.ret)

\* the generation of the remote data an entry was stored at, for person p
StoredAt(k, p) ==
    IF k = KeyPeople THEN cache[k].stored_at[p] ELSE cache[k].stored_at

\* C5: a calculate_biorhythm_and_invalidate(p) that triggered a calculation
\* made its one upstream request before it deleted, and once it is past the
\* delete (about to return, or returned) none of api_person_<p>,
\* api_person_stats_<p> and api_people_list holds an entry stored before the
\* write.
C5_InvalidatedBeforeReturn ==
    \A pr \in Procs :
      LET r == req[pr] IN
        (r.op = "calculate_biorhythm_and_invalidate" /\ Truthy(r.data)) =>
          /\ r.pc \in {"delete", "return", "done", "raised"}
          /\ r.calls = 1
          /\ r.pc \in {"return", "done"} =>
               \A k \in {KeyPerson(r.person), KeyStats(r.person), KeyPeople} :
                 k \in DOMAIN cache => StoredAt(k, r.person) >= r.data.gen
          /\ r.pc = "done" => r.ret = r.data

\* the calculation has returned its result and a concurrent reader has
\* already stored the people list again
C5_Witness ==
    \E pr \in Procs :
      LET r == req[pr] IN
        /\ r.op = "calculate_biorhythm_and_invalidate"
        /\ r.pc = "done"
        /\ Truthy(r.ret)
        /\ KeyPeople \in DOMAIN cache

\* the statistics read directly follows a calculate_biorhythm_and_invalidate
\* of its person that was called while the statistics were cached
AfterCalculate(r) ==
    /\ r.op = "get_person_statistics_cached"
    /\ r.after.op = "calculate_biorhythm_and_invalidate"
    /\ r.after.had_stats

FreshFetch(r) ==
    /\ r.seen \in {"none", "absent", "expired"}
    /\ r.pc = "done" => r.calls = 1

\* C6 as claimed, for the calls that return to their caller: if statistics
\* for p are cached and calculate_biorhythm_and_invalidate(p) is called, the
\* next get_person_statistics_cached(p) fetches from upstream.
C6_Original ==
    \A pr \in Procs :
      LET r == req[pr] IN
        (AfterCalculate(r) /\ r.after.outcome \in {"result", "absent"})
          => FreshFetch(r)

\* C6 as amended: if statistics for p are cached and
\* calculate_biorhythm_and_invalidate(p) returns a truthy calculation
\* result, the next get_person_statistics_cached(p) fetches from upstream.
C6_FreshStatsAfterCalculation ==
    \A pr \in Procs :
      LET r == req[pr] IN
        (AfterCalculate(r) /\ r.after.outcome = "result") => FreshFetch(r)

\* statistics were cached, the calculation returned a result, and the next
\* statistics read returned the statistics of the new generation
C6_Witness ==
    \E pr \in Procs :
      LET r == req[pr] IN
        /\ AfterCalculate(r)
        /\ r.after.outcome = "result"
        /\ r.pc = "done"
        /\ r.calls = 1
        /\ Truthy(r.ret)
        /\ r.ret.gen = gen[r.person]

\* the writer's calculation for person p has returned its result
WriterReturned(w) ==
    /\ w.op = "calculate_biorhythm_and_invalidate"
    /\ w.pc = "done"
    /\ Truthy(w.ret)

\* C7 as claimed: once the writer has returned, the statistics key of its
\* person never holds data fetched from upstream before the write.
C7_NoStaleStatsAfterWrite ==
    \A pr \in Procs :
      LET w == req[pr] IN
        (WriterReturned(w) /\ Live(cache, KeyStats(w.person))) =>
          cache[KeyStats(w.person)].value.gen >= w.ret.gen

\* a live entry that holds data older than the remote data
Stale(k, p) ==
    /\ Live(cache, k)
    /\ (IF k = KeyPeople THEN cache[k].value.gen[p] ELSE cache[k].value.gen)
         < gen[p]

\* C8: a pre-write value of a person's resources that is live in the store
\* is not pinned: with time passing, it is eventually no longer served.
C8_StaleNeverPinned ==
    \A p \in ConcPersons :
      \A k \in {KeyPerson(p), KeyStats(p), KeyPeople} :
        Stale(k, p) ~> ~Stale(k, p)

\* the writer has returned and the store serves pre-write statistics
C8_Witness ==
    \E pr \in Procs :
      LET w == req[pr] IN
        /\ WriterReturned(w)
        /\ Stale(KeyStats(w.person), w.person)
        /\ cache[KeyStats(w.person)].value.gen < w.ret.gen

\* C9 as claimed: when the remote write succeeded, the call ends by
\* returning the write result, also when the store's delete failed.
C9_DeleteFailureStillReturns ==
    \A pr \in Procs :
      LET r == req[pr] IN
        (/\ r.op = "calculate_biorhythm_and_invalidate"
         /\ Truthy(r.data)
         /\ Finished(r))
        => (r.pc = "done" /\ r.ret = r.data)

C10_Inv ==
    /\ \A k \in DOMAIN cache : cache[k].value.kind # "series"
    /\ \A pr \in Procs :
         LET r == req[pr] IN
           r.op = "get_biorhythm_data_fresh" =>
             /\ r.seen = "none"
             /\ r.cached_data = None
             /\ r.calls = (IF r.pc = "done" THEN 1 ELSE 0)
             /\ r.pc = "done" => r.ret = r.data

\* C10: get_biorhythm_data_fresh makes exactly one upstream request, looks
\* nothing up in the store and no step of it changes the store; no key ever
\* holds a point series.
C10_FreshNeverCached ==
    /\ []C10_Inv
    /\ [][\A pr \in Procs :
            (req'[pr] # req[pr] /\ req[pr].op = "get_biorhythm_data_fresh"
               /\ req[pr].pc = "fetch")
            => cache' = cache]_vars

\* a bounded series fetched while the store holds entries
C10_Witness ==
    \E pr \in Procs :
      LET r == req[pr] IN
        /\ r.op = "get_biorhythm_data_fresh"
        /\ r.pc = "done"
        /\ r.args.limit = 5000
        /\ Truthy(r.ret)
        /\ r.ret.kind = "series"
        /\ Live(cache, KeyStats(r.person))

\* the step of a cached read that serves the entry found under its key
C11_HitStep(pr) ==
    /\ IsRead(req[pr])
    /\ req[pr].pc = "get"
    /\ req'[pr].pc = "done"

\* C11: the entry a cached read serves was stored less than its resource's
\* TTL ago (300 seconds for the people list and for a person, 600 seconds
\* for the statistics of a person), and serving it changes neither the
\* entry's remaining time nor anything else in the store.
C11_NeverServedPastTTL ==
    [][\A pr \in Procs :
         C11_HitStep(pr) =>
           /\ ReadKey(req[pr]) \in DOMAIN cache
           /\ cache[ReadKey(req[pr])].age <
                (IF req[pr].op = "get_person_statistics_cached"
                 THEN 600 ELSE 300)
           /\ cache' = cache]_vars

\* statistics served from the store 300 seconds after they were stored,
\* with 300 of their 600 seconds remaining after the hit
C11_Witness ==
    \E pr \in Procs :
      LET r == req[pr] IN
        /\ r.op = "get_person_statistics_cached"
        /\ r.seen = "live"
        /\ r.pc = "done"
        /\ cache[ReadKey(r)].age = 300
        /\ cache[ReadKey(r)].ttl = 300

\* the resource type a cached read asks for
KindOf(o) ==
    IF o = "get_people_cached" THEN "people"
    ELSE IF o = "get_person_cached" THEN "person"
    ELSE "stats"

\* the key is used for resource type kind with parameter p only
C12_KeyFor(k, kind, p) ==
    /\ (k = KeyPeople) = (kind = "people")
    /\ (k = KeyPerson(p)) = (kind = "person")
    /\ (k = KeyStats(p)) = (kind = "stats")
    /\ \A q \in Persons \ {p} : k \notin {KeyPerson(q), KeyStats(q)}

\* the value was fetched for resource type kind with parameter p, the
\* people list without a search term
C12_ValueFor(v, kind, p) ==
    /\ v.kind = kind
    /\ kind = "people" => v.search = ""
    /\ kind # "people" => v.id = p

\* C12: the keys of different (resource type, person) differ, every entry
\* of the store holds a value fetched for the resource type and person of
\* its key (the people list: fetched without a search term), and a
\* cached read returns nothing fetched for another resource type, person or
\* search term.
C12_KeysDoNotCollide ==
    /\ C12_KeyFor(KeyPeople, "people", 0)
    /\ \A p \in Persons :
         /\ C12_KeyFor(KeyPerson(p), "person", p)
         /\ C12_KeyFor(KeyStats(p), "stats", p)
         /\ KeyPerson(p) \in DOMAIN cache =>
              C12_ValueFor(cache[KeyPerson(p)].value, "person", p)
         /\ KeyStats(p) \in DOMAIN cache =>
              C12_ValueFor(cache[KeyStats(p)].value, "stats", p)
    /\ KeyPeople \in DOMAIN cache =>
         C12_ValueFor(cache[KeyPeople].value, "people", 0)
    /\ \A pr \in Procs :
         LET r == req[pr] IN
           (IsRead(r) /\ r.pc = "done" /\ Truthy(r.ret)) =>
             C12_ValueFor(r.ret, KindOf(r.op), r.person)

\* a search has just been answered by the remote API while the store holds
\* the unfiltered people list and the person and statistics entries of
\* both persons
C12_Witness ==
    /\ \E pr \in Procs :
         LET r == req[pr] IN
           /\ r.op = "get_people"
           /\ r.pc = "done"
           /\ Truthy(r.ret)
           /\ r.ret.search = "ann"
    /\ Live(cache, KeyPeople)
    /\ \A p \in Persons : Live(cache, KeyPerson(p)) /\ Live(cache, KeyStats(p))

\* the step in which the call in slot pr carries out or fails its delete
C13_DeleteStep(pr) ==
    /\ req[pr].op \in InvalidatingOps
    /\ req[pr].pc = "delete"
    /\ req'[pr].pc # "delete"

\* C13: a key leaves the store only in the delete step of an invalidation
\* for person p and only if it is api_person_<p>, api_person_stats_<p> or
\* api_people_list; that step leaves the entries (value and remaining time)
\* of api_person_<q> and api_person_stats_<q> of every other person q as
\* they were.
C13_InvalidationIsKeyed ==
    [][/\ \A k \in DOMAIN cache \ DOMAIN cache' :
            \E pr \in Procs :
              /\ C13_DeleteStep(pr)
              /\ k \in {"api_person_" \o ToString(req[pr].person),
                         "api_person_stats_" \o ToString(req[pr].person),
                         "api_people_list"}
       /\ \A pr \in Procs :
            C13_DeleteStep(pr) =>
              \A q \in Persons \ {req[pr].person} :
                \A k \in {KeyPerson(q), KeyStats(q)} :
                  /\ (k \in DOMAIN cache) = (k \in DOMAIN cache')
                  /\ k \in DOMAIN cache => cache'[k] = cache[k]]_vars

\* invalidate_person_cache(1) has returned: the keys of person 1 and the
\* people list are gone, the entries of person 2 are still live
C13_Witness ==
    \E pr \in Procs :
      LET r == req[pr] IN
        /\ r.op = "invalidate_person_cache"
        /\ r.person = 1
        /\ r.pc = "done"
        /\ DOMAIN cache = {KeyPerson(2), KeyStats(2)}
        /\ Live(cache, KeyPerson(2))
        /\ Live(cache, KeyStats(2))

\* the exchange is one of the failures C14 lists: a transport error, a
\* timeout, a status outside 200..299 or an unparseable body
C14_Failure(x) ==
    \/ x.error # "none"
    \/ x.status \notin 200..299
    \/ x.body = Unparseable

\* C14 as claimed: _make_request never raises; a transport error, a
\* timeout, a non-2xx status or an unparseable body each yield None, and a
\* 2xx response with a parseable body yields the parsed body.
C14_FailureYieldsAbsent ==
    sent.made =>
      /\ sent.result.kind # "raised"
      /\ C14_Failure(sent.exchange) => sent.result = None
      /\ ~C14_Failure(sent.exchange) => sent.result = sent.exchange.body

\* C15: a request sent after an authenticate obtained a token, and before
\* a later authenticate obtained another one, carries the header
\* 'Authorization: Token <that token>'.
C15_AuthorizationAfterAuthenticate ==
    /\ (sent.made /\ sent.granted # NotGranted) =>
         /\ "Authorization" \in DOMAIN sent.headers
         /\ sent.headers["Authorization"] = "Token " \o sent.granted
    /\ client.granted # NotGranted =>
         /\ "Authorization" \in DOMAIN client.headers
         /\ client.headers["Authorization"] = "Token " \o client.granted

\* a client constructed without a token obtained t1, then t2, and its last
\* GET carried t2
C15_Witness ==
    /\ sent.made
    /\ sent.method = "GET"
    /\ sent.granted = "t2"
    /\ sent.headers["Authorization"] = "Token t2"
    /\ "Content-Type" \notin DOMAIN sent.headers

\* C16 as claimed: the Authorization header is attached, to the session and
\* to every request sent, if and only if the client holds a non-empty token.
C16_HeaderIffToken ==
    /\ ("Authorization" \in DOMAIN client.headers) = (client.token # "")
    /\ (sent.made /\ sent.method = "GET") =>
         ("Authorization" \in DOMAIN sent.headers) = (client.token # "")

\* the line chart has been built from a non-empty series
C18_Reconstructed ==
    /\ chart.fn = "create_biorhythm_line_chart"
    /\ chart.data # <<>>
    /\ chart.out.kind = "line"

\* C18: in the dense series the row of the anchor's own date (the anchor is
\* the first point of the series as given) has the anchor's days_alive, and
\* from each row to the row of the next calendar day days_alive increases
\* by exactly 1.
C18_DaysAliveFollowsAnchor ==
    C18_Reconstructed =>
      LET dense == chart.out.dense
          anchor == chart.data[1]
      IN  /\ \E i \in DOMAIN dense :
                Calendar[dense[i].date] = anchor.date
          /\ \A i \in DOMAIN dense :
                Calendar[dense[i].date] = anchor.date =>
                  dense[i].days_alive = anchor.days_alive
          /\ \A i, j \in DOMAIN dense :
                dense[j].date = dense[i].date + 1 =>
                  dense[j].days_alive = dense[i].days_alive + 1

\* the anchor is the latest point of a series with gaps: the earlier days
\* are counted back from it
C18_Witness ==
    /\ C18_Reconstructed
    /\ chart.data = <<Sample("2024-01-05", 10004),
                      Sample("2024-01-02", 10000)>>
    /\ Len(chart.out.dense) = 4
    /\ chart.out.dense[1].days_alive = 10001
    /\ chart.out.dense[4].days_alive = 10004

\* C19: for a non-empty sparse series the dense series has exactly one row
\* for each calendar day from the earliest to the latest source date
\* inclusive and for no other day, in increasing date order: (latest -
\* earliest) + 1 rows, one row for a single point, and for the series
\* {2024-01-01: 10000, 2024-01-05: 10004} five rows with days_alive
\* 10000..10004.
C19_OneRowPerCalendarDay ==
    C18_Reconstructed =>
      LET dense == chart.out.dense
          source == {t \in DOMAIN Calendar :
                      \E i \in DOMAIN chart.data :
                        chart.data[i].date = Calendar[t]}
          covered == {t \in DOMAIN Calendar :
                       /\ \E lo \in source : lo <= t
                       /\ \E hi \in source : t <= hi}
      IN  /\ \A t \in covered :
                Cardinality({i \in DOMAIN dense : dense[i].date = t}) = 1
          /\ \A i \in DOMAIN dense : dense[i].date \in covered
          /\ \A i, j \in DOMAIN dense :
                i < j => dense[i].date < dense[j].date
          /\ Len(dense) = Cardinality(covered)
          /\ Cardinality(source) = 1 => Len(dense) = 1
          /\ chart.data = <<Sample("2024-01-01", 10000),
                            Sample("2024-01-05", 10004)>>
               => /\ Len(dense) = 5
                  /\ \A i \in 1..5 : dense[i].days_alive = 10000 + (i - 1)

\* the series {2024-01-01: 10000, 2024-01-05: 10004} reconstructed
C19_Witness ==
    /\ C18_Reconstructed
    /\ chart.data = <<Sample("2024-01-01", 10000),
                      Sample("2024-01-05", 10004)>>
    /\ Len(chart.out.dense) = 5
    /\ Calendar[chart.out.dense[1].date] = "2024-01-01"
    /\ Calendar[chart.out.dense[5].date] = "2024-01-05"

\* C20: the line chart builder and the four statistics chart builders
\* (distribution, critical days, phase, correlation) answer an empty sparse
\* series with the result of create_empty_chart: a chart without any row,
\* that only carries the no-data message.
C20_EmptySeriesYieldsNoData ==
    (chart.fn \in ChartBuilders /\ chart.data = <<>>) =>
      /\ chart.out.kind = "empty"
      /\ DOMAIN chart.out = {"kind", "message"}
      /\ chart.out.message = "No biorhythm data available"

\* the correlation chart asked for an empty series
C20_Witness ==
    /\ chart.fn = "create_correlation_chart"
    /\ chart.data = <<>>
    /\ chart.out.kind = "empty"

\* the views that draw a chart of the person's point series
C17_SeriesChartViews ==
    {"chart_biorhythm_line", "chart_distribution", "chart_critical_days",
     "chart_cycle_phases", "chart_correlation"}

\* the chart of the response is the explicit no-data chart
C17_EmptyChart(r) ==
    /\ r.kind = "json"
    /\ r.data.chart_data.kind = "empty"

\* the explicit empty or error state the response of a view carries for
\* the Absent results of the calls the view made
C17_ExplicitState(name, u, r) ==
    CASE name = "dashboard_home" ->
           /\ u.info = None =>
                /\ r.context.error_message.kind = "message"
                /\ ~r.context.api_connected
                /\ r.context.people = List(<<>>)
           /\ u.people = None => r.context.people = List(<<>>)
           /\ u.global_stats = None => r.context.global_stats = None
      [] name = "person_dashboard" ->
           /\ u.person = None => r.context.error_message.kind = "message"
           /\ u.series = None => r.context.biorhythm_data = None
           /\ u.statistics = None => r.context.statistics = None
      [] name \in C17_SeriesChartViews ->
           (u.person = None \/ u.series = None) => C17_EmptyChart(r)
      [] name = "chart_statistics" ->
           (u.person = None \/ u.statistics = None) => C17_EmptyChart(r)
      [] name = "calculate_biorhythm" ->
           u.calculation = None =>
             /\ r.template = "dashboard/calculation_error.html"
             /\ r.context.error.kind = "message"
      [] name = "api_status" ->
           u.info = None => (~r.data.connected /\ r.data.info = Empty)
      [] name = "people_list_partial" ->
           u.people = None => r.context.people = List(<<>>)
      [] name = "person_info_partial" ->
           /\ u.person = None => r.context.person = None
           /\ u.statistics = None => r.context.statistics = None
      [] name = "test_simple_correlation_view" ->
           u.series = None => C17_EmptyChart(r)
      [] name = "debug_correlation_data" ->
           u.series = None =>
             ("error" \in DOMAIN r.data /\ r.data.error.kind = "message")

C21_Malformed ==
    /\ chart.fn = "create_biorhythm_line_chart"
    /\ \E i \in DOMAIN chart.data :
         \/ ~Has(chart.data[i], "date")
         \/ ~Has(chart.data[i], "days_alive")
         \/ \E cycle \in Cycles : ~Has(chart.data[i], Flag(cycle))

\* C21: a malformed sparse series passed to the reconstructor (a point
\* lacking its date, its days_alive or a critical-day flag) yields an
\* explicit no-data result: the reconstructor neither raises nor returns a
\* chart with a dense series.
C21_MalformedYieldsNoData ==
    C21_Malformed =>
      /\ chart.out.kind = "empty"
      /\ DOMAIN chart.out = {"kind", "message"}

\* the phase (days_alive mod period) / period * 360 of a sample
C22_Phase(days_alive, period) == [turn |-> days_alive % period, of |-> period]

\* C22: for every non-empty series create_cycle_phase_chart computes each
\* cycle's phase from the sample with the greatest date, as (days_alive mod
\* period) / period * 360 with periods 23, 28 and 33, and each phase lies
\* in [0, 360).
C22_PhaseOfLatestSample ==
    (chart.fn = "create_cycle_phase_chart" /\ chart.data # <<>>) =>
      /\ chart.out.kind = "phase"
      /\ \E i \in DOMAIN chart.data :
           /\ \A j \in DOMAIN chart.data :
                to_datetime(chart.data[j].date)
                  <= to_datetime(chart.data[i].date)
           /\ chart.out.physical_phase
                = C22_Phase(chart.data[i].days_alive, 23)
           /\ chart.out.emotional_phase
                = C22_Phase(chart.data[i].days_alive, 28)
           /\ chart.out.intellectual_phase
                = C22_Phase(chart.data[i].days_alive, 33)
      /\ \A phase \in {chart.out.physical_phase, chart.out.emotional_phase,
                       chart.out.intellectual_phase} :
           0 <= phase.turn /\ phase.turn < phase.of

\* the samples of the drawn series that have at least one flag set
C23_FlaggedSamples ==
    {i \in DOMAIN chart.data :
       \/ chart.data[i].is_physical_critical
       \/ chart.data[i].is_emotional_critical
       \/ chart.data[i].is_intellectual_critical}

\* C23: the critical-day markers of the line chart are exactly the dates of
\* the original sparse samples that have at least one of the three critical
\* flags set, one marker per such sample: a day of the dense series that is
\* not the date of a flagged sample gets no marker, whatever its sine
\* values.
C23_MarkersAreFlaggedSamples ==
    C18_Reconstructed =>
      LET markers == chart.out.critical_dates IN
        /\ {markers[m] : m \in DOMAIN markers}
             = {to_datetime(chart.data[i].date) : i \in C23_FlaggedSamples}
        /\ Len(markers) = Cardinality(C23_FlaggedSamples)
        /\ \A i \in DOMAIN chart.out.dense :
             (\A j \in C23_FlaggedSamples :
                to_datetime(chart.data[j].date) # chart.out.dense[i].date)
               => \A m \in DOMAIN markers :
                    markers[m] # chart.out.dense[i].date

\* a flagged sample on 2024-01-05 and an unflagged one on 2024-01-01 where
\* the physical sine is zero: one marker, on 2024-01-05
C23_Witness ==
    /\ C18_Reconstructed
    /\ chart.data = <<Point("2024-01-01", 10005, <<0, 0, 0>>, {}),
                      Point("2024-01-05", 10009, <<0, 0, 0>>,
                            {"emotional", "intellectual"})>>
    /\ chart.out.dense[1].physical.turn = 0
    /\ Len(chart.out.dense) = 5
    /\ chart.out.critical_dates = <<to_datetime("2024-01-05")>>

\* C24: corr_strength labels a correlation value r in [-1, 1], here r in
\* hundredths, by its absolute value: 'Strong' when |r| >= 0.7, 'Moderate'
\* when 0.3 <= |r| < 0.7, 'Weak' when |r| < 0.3; exactly one of the three
\* labels applies and the label of -r is the label of r.
C24_LabelByAbsoluteValue ==
    chart.fn = "corr_strength" =>
      LET r == chart.data
          magnitude == IF r < 0 THEN -r ELSE r
          label == chart.out.text
      IN  /\ label \in {"Strong", "Moderate", "Weak"}
          /\ label = "Strong" <=> magnitude >= 70
          /\ label = "Moderate" <=> (30 <= magnitude /\ magnitude < 70)
          /\ label = "Weak" <=> magnitude < 30
          /\ corr_strength(Hundredths(-r)) = label

\* r = -0.7 is labelled Strong
C24_Witness ==
    /\ chart.fn = "corr_strength"
    /\ chart.data = -70
    /\ chart.out.text = "Strong"

\* the rows of the drawn series, the values of a cycle's column
C25_Varies(cycle) ==
    \E i, j \in DOMAIN chart.data : chart.data[i][cycle] # chart.data[j][cycle]

\* C25: the correlation matrix of create_correlation_chart over the sparse
\* samples is symmetric for every pair of cycles, has 1.0 on the diagonal
\* for a cycle whose column has at least two points and non-zero variance,
\* and has 0 wherever the correlation is undefined (a single point, or a
\* column of the pair with zero variance).
C25_CorrelationMatrix ==
    (chart.fn = "create_correlation_chart" /\ chart.data # <<>>) =>
      LET z == chart.out.correlation_data IN
        /\ \A a, b \in Cycles : z[a][b] = z[b][a]
        /\ \A a \in Cycles :
             (Len(chart.data) >= 2 /\ C25_Varies(a))
               => z[a][a] = [kind |-> "float", sign |-> 1, num |-> 1,
                             den |-> 1]
        /\ \A a, b \in Cycles :
             (Len(chart.data) <= 1 \/ ~C25_Varies(a) \/ ~C25_Varies(b))
               => z[a][b] = [kind |-> "float", sign |-> 0, num |-> 0,
                             den |-> 1]

\* three samples: the physical and emotional columns vary and are opposite,
\* the intellectual column is constant
C25_Witness ==
    /\ chart.fn = "create_correlation_chart"
    /\ chart.data = <<Point("2024-01-01", 10000, <<1, -1, 1>>, {}),
                      Point("2024-01-01", 10000, <<-1, 1, 1>>, {}),
                      Point("2024-01-01", 10000, <<1, -1, 1>>, {})>>
    /\ chart.out.correlation_data["physical"]["physical"].sign = 1
    /\ chart.out.correlation_data["physical"]["emotional"].sign = -1
    /\ chart.out.correlation_data["physical"]["intellectual"].sign = 0
    /\ chart.out.correlation_data["intellectual"]["intellectual"].sign = 0

\* days_alive(d) of a day d of the dense series: the anchor's days_alive
\* plus the days from the anchor's date to d
C26_DaysAlive(d) ==
    chart.data[1].days_alive + (d - to_datetime(chart.data[1].date))

\* C26: for every day d of the dense series physical(d), emotional(d) and
\* intellectual(d) are the sines of days_alive(d) / 23, days_alive(d) / 28
\* and days_alive(d) / 33 of a full turn, with days_alive(d) counted from
\* the anchor: a sine of a real angle, so a value in [-1, 1], whatever the
\* cycle values of the samples next to d.
C26_SinesRecomputedFromAnchor ==
    C18_Reconstructed =>
      \A i \in DOMAIN chart.out.dense :
        LET row == chart.out.dense[i]
            days_alive == C26_DaysAlive(row.date)
        IN  /\ row.physical = [turn |-> days_alive % 23, of |-> 23]
            /\ row.emotional = [turn |-> days_alive % 28, of |-> 28]
            /\ row.intellectual = [turn |-> days_alive % 33, of |-> 33]
            /\ \A cycle \in Cycles :
                 /\ 0 <= row[cycle].turn
                 /\ row[cycle].turn < row[cycle].of

\* 2024-01-03, a day without a sample between 2024-01-01 and 2024-01-05:
\* days_alive 10002
C26_Witness ==
    /\ C18_Reconstructed
    /\ chart.data = <<Sample("2024-01-01", 10000),
                      Sample("2024-01-05", 10004)>>
    /\ Calendar[chart.out.dense[3].date] = "2024-01-03"
    /\ chart.out.dense[3].physical = [turn |-> 20, of |-> 23]
    /\ chart.out.dense[3].emotional = [turn |-> 6, of |-> 28]
    /\ chart.out.dense[3].intellectual = [turn |-> 3, of |-> 33]

\* days_alive minus the date is the same for every point of the series
C29_SelfConsistent(biorhythm_data) ==
    \A i, j \in DOMAIN biorhythm_data :
      biorhythm_data[i].days_alive - to_datetime(biorhythm_data[i].date)
        = biorhythm_data[j].days_alive - to_datetime(biorhythm_data[j].date)

\* the series with the points of biorhythm_data in another order
C29_Permutations(biorhythm_data) ==
    LET n == Len(biorhythm_data) IN
      {[i \in 1..n |-> biorhythm_data[f[i]]] :
         f \in {g \in [1..n -> 1..n] :
                  \A i, j \in 1..n : g[i] = g[j] => i = j}}

\* C29: for a self-consistent sparse series (days_alive minus date the same
\* for every point) the dense series does not depend on the order of the
\* points: every permutation of the input is reconstructed to the same
\* dates with the same days_alive and the same sines per date.
C29_OrderIndependent ==
    (C18_Reconstructed /\ C29_SelfConsistent(chart.data)) =>
      \A permuted \in C29_Permutations(chart.data) :
        create_biorhythm_line_chart(permuted, "Ann").dense = chart.out.dense

\* three consistent samples given out of date order
C29_Witness ==
    /\ C18_Reconstructed
    /\ chart.data = <<Sample("2024-01-05", 10004),
                      Sample("2024-01-01", 10000),
                      Sample("2024-01-02", 10001)>>
    /\ Len(chart.out.dense) = 5
    /\ chart.out.dense[1].days_alive = 10000
    /\ chart.out.dense[5].days_alive = 10004

\* a step of a calculation that does not succeed: the view rejects 'days',
\* or calculate_biorhythm_and_invalidate gets Absent from the remote API
\* and returns it
C27_UnsuccessfulStep(pr) ==
    /\ req'[pr] # req[pr]
    /\ \/ req'[pr].op = "calculate_biorhythm_view"
       \/ /\ req[pr].op = "calculate_biorhythm_and_invalidate"
          /\ req[pr].pc \in {"write", "delete", "return"}
          /\ ~Truthy(req'[pr].data)

\* C27: when the remote calculation does not succeed (calculate_biorhythm
\* returns Absent, or the calculate view rejects a non-integer 'days'
\* before calling the client), no step of the call changes the cache
\* store: no key is deleted and none is written.
C27_FailedCalculationKeepsStore ==
    [][\A pr \in Procs : C27_UnsuccessfulStep(pr) => cache' = cache]_vars

\* a calculation that got Absent has returned, and the person's
\* statistics, cached before the call, are still in the store
C27_Witness ==
    \E pr \in Procs :
      /\ req[pr].op = "calculate_biorhythm_and_invalidate"
      /\ req[pr].pc = "done"
      /\ req[pr].calls = 1
      /\ ~Truthy(req[pr].ret)
      /\ req[pr].seen = "live"
      /\ Holds(cache, KeyStats(req[pr].person)) = "live"

\* every entry of the store holds a truthy value
C28_EntriesTruthy == \A k \in DOMAIN cache : Truthy(cache[k].value)

\* a cached read whose lookup found a present unexpired entry has ended
\* with the entry's value, without a call to the remote API
C28_LiveEntryHits(pr) ==
    (req[pr].op \in ReadOps /\ req[pr].seen = "live")
      => /\ req[pr].pc = "done"
         /\ req[pr].calls = 0
         /\ Truthy(req[pr].ret)
         /\ req[pr].ret = req[pr].cached_data

\* C28: in every reachable state of the cache store every entry written by
\* CachedAPIClient holds a non-absent, non-empty (truthy) upstream result:
\* an Absent or empty result is never stored, so a read that finds a
\* present unexpired entry always takes it as a hit.
C28_OnlyTruthyResultsStored ==
    /\ C28_EntriesTruthy
    /\ \A pr \in Procs : C28_LiveEntryHits(pr)

\* a read whose upstream call gave an empty result has returned it and
\* left no entry under its key, while the store holds other entries
C28_Witness ==
    \E pr \in Procs :
      /\ req[pr].op \in ReadOps
      /\ req[pr].pc = "done"
      /\ req[pr].calls = 1
      /\ req[pr].ret = Empty
      /\ Holds(cache, KeyOf(req[pr].op, req[pr].person)) = "absent"
      /\ DOMAIN cache # {}

\* C30: the entry under api_people_list is only ever the result of an
\* unfiltered people-list request: a people list request with a search
\* term goes to the remote API without a lookup in the store and leaves
\* no entry, so the store never holds, and an unfiltered listing is never
\* served, the result of a search.
C30_PeopleEntryIsUnfiltered ==
    /\ KeyPeople \in DOMAIN cache =>
         /\ cache[KeyPeople].value.kind = "people"
         /\ cache[KeyPeople].value.search = ""
    /\ \A pr \in Procs :
         /\ (req[pr].op = "get_people_cached" /\ Truthy(req[pr].ret))
              => req[pr].ret.search = ""
         /\ req[pr].op = "get_people" =>
              /\ req[pr].args.search # ""
              /\ req[pr].seen = "none"
              /\ req[pr].cached_data = None
         /\ (req[pr].op = "get_people" /\ Truthy(req[pr].ret))
              => req[pr].ret.search = req[pr].args.search

\* a search has returned its result from the remote API while the store
\* holds no people list: nothing was stored for it
C30_Witness ==
    \E pr \in Procs :
      /\ req[pr].op = "get_people"
      /\ req[pr].pc = "done"
      /\ Truthy(req[pr].ret)
      /\ req[pr].ret.search = "ann"
      /\ Holds(cache, KeyPeople) = "absent"
      /\ DOMAIN cache # {}

====
